---- MODULE Spec2Model ----
(***************************************************************************)
(* Document-intake pipeline, user profile and cached chat of the education *)
(* assistant (backend.py: EducationAgent, parse_uploaded_file.py).         *)
(*                                                                         *)
(* Python strings are sequences of one-character strings; messages built   *)
(* by f-strings are sequences of their pieces.  The empty string is <<>>.  *)
(* A call that can raise returns [raised |-> TRUE, msg |-> str(e)] or      *)
(* [raised |-> FALSE, val |-> v].  The cross mark that opens the error     *)
(* messages of analyze_document is left out of the message pieces.         *)
(*                                                                         *)
(* backend.py has the bodies of analyze_document and _generate_analysis    *)
(* (lines 145-229 and 232-358) indented at the level of their def lines;   *)
(* they are read here as the bodies of these two methods.                  *)
(***************************************************************************)
EXTENDS Integers, Sequences, FiniteSets, TLC

VARIABLES metrics, call, user, log, cache, answered

vars == <<metrics, call, user, log, cache, answered>>

(***************************************************************************)
(* Bounds of the model.                                                    *)
(***************************************************************************)
MaxTextLen == 1      \* longest OCR output, text file and reviewed text
MaxParts == 2        \* most pages / paragraphs of one document
MaxCalls == 2        \* cap of the gpt_calls counter
MaxMerges == 2       \* most extractions merged into one profile
MaxFields == 2       \* most profile fields one message names
MaxHits == 2         \* cap of the cache_hits counter

(***************************************************************************)
(* Program constants.                                                      *)
(***************************************************************************)
MaxFileSize == 209715200   \* 200 * 1024 * 1024

(***************************************************************************)
(* Strings.                                                                *)
(***************************************************************************)
Whitespace == {" ", "\n"}

Chars == {"a", " "}

RECURSIVE LStrip(_)
LStrip(s) ==
    IF s = <<>> THEN s
    ELSE IF Head(s) \in Whitespace THEN LStrip(Tail(s)) ELSE s

RECURSIVE RStrip(_)
RStrip(s) ==
    IF s = <<>> THEN s
    ELSE IF s[Len(s)] \in Whitespace THEN RStrip(SubSeq(s, 1, Len(s) - 1)) ELSE s

Strip(s) == LStrip(RStrip(s))

\* "\n".join(parts)
RECURSIVE JoinNL(_)
JoinNL(parts) ==
    IF parts = <<>> THEN <<>>
    ELSE IF Len(parts) = 1 THEN parts[1]
    ELSE parts[1] \o <<"\n">> \o JoinNL(Tail(parts))

\* str.lower() on the strings the model feeds it
Lower(s) ==
    CASE s = "JPEG" -> "jpeg"
      [] s = "Resume" -> "resume"
      [] s = "CV" -> "cv"
      [] s = " CV " -> " cv "
      [] s = " PDF " -> " pdf "
      [] OTHER -> s

\* str.strip() on the category strings the model feeds it
StripName(s) ==
    CASE s = " CV " -> "CV"
      [] s = " cv " -> "cv"
      [] s = " pdf " -> "pdf"
      [] OTHER -> s

Ok(v) == [raised |-> FALSE, val |-> v]

Raise(m) == [raised |-> TRUE, msg |-> m]

(***************************************************************************)
(* Uploaded payloads.  A payload is described by what the libraries see    *)
(* in its bytes: its length, the MIME type libmagic sniffs, the format its *)
(* body really has (kind), the text parts a parser of that format finds    *)
(* (pages, paragraphs, the OCR output) and its UTF-8 decoding with         *)
(* undecodable bytes dropped.                                              *)
(***************************************************************************)
Texts == UNION {[1..n -> Chars] : n \in 0..MaxTextLen}

\* the text of one page or paragraph: none, a letter, a blank
PartTexts == {<<>>, <<"a">>, <<" ">>}

PartLists == UNION {[1..n -> PartTexts] : n \in 0..MaxParts}

DocxMime == "application/vnd.openxmlformats-officedocument.wordprocessingml.document"

Sizes == {1, MaxFileSize, MaxFileSize + 1}

EmptyFile ==
    [len |-> 0, mime |-> "application/x-empty", kind |-> "empty",
     parts |-> <<>>, utf8 |-> <<>>]

PdfFiles ==
    {[len |-> 1, mime |-> "application/pdf", kind |-> "pdf",
      parts |-> p, utf8 |-> <<"a">>] : p \in PartLists}
        \cup {[len |-> n, mime |-> "application/pdf", kind |-> "pdf",
                parts |-> <<<<"a">>>>, utf8 |-> <<"a">>] : n \in Sizes}

\* a %PDF header followed by a body pdfplumber cannot open
CorruptPdf ==
    [len |-> 1, mime |-> "application/pdf", kind |-> "bin",
     parts |-> <<>>, utf8 |-> <<"a">>]

\* libmagic reports a .docx either by its full type or as a zip archive
DocxFiles ==
    {[len |-> 1, mime |-> DocxMime, kind |-> "docx", parts |-> p,
      utf8 |-> <<"a">>] : p \in PartLists}
        \cup {[len |-> 1, mime |-> "application/zip", kind |-> "docx",
                parts |-> <<<<"a">>>>, utf8 |-> <<"a">>]}

ImageFiles ==
    {[len |-> 1, mime |-> IF k = "png" THEN "image/png" ELSE "image/jpeg",
      kind |-> k, parts |-> <<t>>, utf8 |-> <<"a">>] :
        k \in {"png", "jpg"}, t \in Texts}

TxtFiles ==
    {[len |-> Len(t), mime |-> "text/plain", kind |-> "txt",
      parts |-> <<>>, utf8 |-> t] : t \in Texts \ {<<>>}}

\* a legacy binary .doc
DocFile ==
    [len |-> 1, mime |-> "application/msword", kind |-> "doc",
     parts |-> <<>>, utf8 |-> <<"a">>]

\* bytes with no signature libmagic knows
BinFile ==
    [len |-> 1, mime |-> "application/octet-stream", kind |-> "bin",
     parts |-> <<>>, utf8 |-> <<>>]

Files ==
    {EmptyFile, CorruptPdf, DocFile, BinFile}
        \cup PdfFiles \cup DocxFiles \cup ImageFiles \cup TxtFiles

\* a filename is its stem and the part after the last dot ("" when none)
Extensions == {"", "pdf", "JPEG", "exe"}

Filenames == {[stem |-> "resume", ext |-> e] : e \in Extensions}

\* Path(filename).suffix[1:]
Suffix(filename) == filename.ext

Categories ==
    {"cv", " CV ", "Resume", "sop", "transcript", "motivation letter",
     "essay"}

(***************************************************************************)
(* EducationAgent._validate_file                                           *)
(***************************************************************************)
_validate_file_no_empty_check(file) ==
    IF file.len > MaxFileSize THEN FALSE ELSE TRUE

_validate_file(file) ==
    IF file.len = 0 THEN FALSE
    ELSE IF file.len > MaxFileSize THEN FALSE
    ELSE TRUE

(***************************************************************************)
(* EducationAgent._detect_file_type.  magic_ok = FALSE is the run in which *)
(* magic.from_buffer raises.                                               *)
(***************************************************************************)
type_map ==
    [m \in {"application/pdf", DocxMime, "application/msword", "image/jpeg",
            "image/jpg", "image/png", "text/plain"} |->
        CASE m = "application/pdf" -> "pdf"
          [] m = DocxMime -> "docx"
          [] m = "application/msword" -> "doc"
          [] m = "image/jpeg" -> "jpg"
          [] m = "image/jpg" -> "jpg"
          [] m = "image/png" -> "png"
          [] m = "text/plain" -> "txt"]

_detect_file_type_by_extension(file, filename, magic_ok) ==
    LET ext == Lower(Suffix(filename))
    IN  IF ext # "" THEN ext
        ELSE IF magic_ok /\ file.mime \in DOMAIN type_map THEN type_map[file.mime]
        ELSE "unknown"

_detect_file_type(file, filename, magic_ok) ==
    IF magic_ok
    THEN LET mime == file.mime
             ext == Lower(Suffix(filename))
         IN  IF mime \in DOMAIN type_map THEN type_map[mime]
             ELSE IF ext # "" THEN ext ELSE "unknown"
    ELSE LET ext == Lower(Suffix(filename))
         IN  IF ext # "" THEN ext ELSE "unknown"

(***************************************************************************)
(* EducationAgent._is_supported                                            *)
(***************************************************************************)
supported_types ==
    [d \in {"sop", "cv", "transcript"} |->
        CASE d = "sop" -> {"pdf", "docx", "jpg", "png"}
          [] d = "cv" -> {"pdf", "docx"}
          [] d = "transcript" -> {"pdf", "jpg", "png"}]

_is_supported(file_type, doc_type) ==
    LET d == Lower(doc_type)
    IN  file_type \in (IF d \in DOMAIN supported_types THEN supported_types[d] ELSE {})

(***************************************************************************)
(* parse_uploaded_file.py                                                  *)
(***************************************************************************)
MimeStrings ==
    {"application/pdf", DocxMime, "application/msword", "text/plain",
     "image/jpeg", "image/jpg", "image/png", "application/zip"}

\* the file_type strings handed to parse_uploaded_file
FileTypeStrings ==
    MimeStrings \cup {"pdf", ".pdf", " PDF ", "docx", "txt", "jpg", "jpeg",
                      "png", "exe", ""}

mime_map ==
    [m \in MimeStrings \ {"application/zip"} |->
        CASE m = "application/pdf" -> "pdf"
          [] m = DocxMime -> "docx"
          [] m = "application/msword" -> "docx"
          [] m = "text/plain" -> "txt"
          [] m = "image/jpeg" -> "jpg"
          [] m = "image/jpg" -> "jpg"
          [] m = "image/png" -> "png"]

_normalize_kind(file_type) ==
    IF file_type = "" THEN "unknown"
    ELSE LET ft == StripName(Lower(file_type))
         IN  IF ft \in MimeStrings          \* "/" in ft
             THEN IF ft \in DOMAIN mime_map THEN mime_map[ft] ELSE "unknown"
             ELSE LET ft2 == IF ft = ".pdf" THEN "pdf" ELSE ft   \* ft[1:]
                  IN  IF ft2 \in {"pdf", "docx", "txt", "jpg", "jpeg", "png"}
                      THEN IF ft2 = "jpeg" THEN "jpg" ELSE ft2
                      ELSE "unknown"

NoPdfTextMsg ==
    <<"No extractable text found in PDF (likely a scanned PDF without OCR).">>

\* pdfplumber.open(...).pages, each page by its extract_text() (None is "")
pdfplumber_open(file) ==
    IF file.kind = "pdf" THEN Ok(file.parts)
    ELSE Raise(<<"No /Root object! - Is this really a PDF?">>)

\* docx.Document(...).paragraphs, each paragraph by its text
Document(file) ==
    IF file.kind = "docx" THEN Ok(file.parts)
    ELSE Raise(<<"File is not a zip file">>)

\* PIL.Image.open followed by pytesseract.image_to_string
image_to_string(file) ==
    IF file.kind \in {"png", "jpg"} THEN Ok(file.parts[1])
    ELSE Raise(<<"cannot identify image file">>)

\* bytes.decode("utf-8", errors="ignore")
decode(file) == file.utf8

\* the pages with a truthy extract_text(), joined and stripped
PdfText(pages) == Strip(JoinNL(SelectSeq(pages, LAMBDA t : t # <<>>)))

NonEmptyOrRaise(text) ==
    IF text = <<>> THEN Raise(NoPdfTextMsg) ELSE Ok(text)

_extract_pdf_returns_empty(file) ==
    IF file.kind # "pdf" THEN pdfplumber_open(file)
    ELSE Ok(PdfText(file.parts))

_extract_pdf(file) ==
    IF pdfplumber_open(file).raised THEN pdfplumber_open(file)
    ELSE NonEmptyOrRaise(PdfText(pdfplumber_open(file).val))

_extract_docx(file) ==
    IF Document(file).raised THEN Document(file)
    ELSE Ok(Strip(JoinNL(Document(file).val)))

_extract_image(file) ==
    IF image_to_string(file).raised
    THEN Raise(<<"Invalid image data; unable to open image for OCR.">>)
    ELSE Ok(Strip(image_to_string(file).val))

_extract_txt(file) == Ok(Strip(decode(file)))

parse_uploaded_file(file, file_type) ==
    IF file.len = 0 THEN Raise(<<"Empty file provided.">>)
    ELSE LET kind == _normalize_kind(file_type)
         IN  CASE kind = "pdf" -> _extract_pdf(file)
               [] kind = "docx" -> _extract_docx(file)
               [] kind \in {"jpg", "png"} -> _extract_image(file)
               [] kind = "txt" -> _extract_txt(file)
               [] OTHER ->
                    Raise(<<"Unsupported file type for extraction: ", file_type>>)

(***************************************************************************)
(* Python values that come out of json.loads: None, numbers, strings,      *)
(* lists and dicts, tagged by their type.                                  *)
(***************************************************************************)
JNull == [t |-> "NoneType"]

JNum(n) == [t |-> "int", n |-> n]

JStr(s) == [t |-> "str", s |-> s]

JList(l) == [t |-> "list", items |-> l]

JObj(f) == [t |-> "dict", fields |-> f]

\* bool(v)
Truthy(v) ==
    CASE v.t = "NoneType" -> FALSE
      [] v.t = "int" -> v.n # 0
      [] v.t = "str" -> v.s # <<>>
      [] v.t = "list" -> v.items # <<>>
      [] v.t = "dict" -> DOMAIN v.fields # {}

\* v.get(key, default)
Get(v, key, default) ==
    IF v.t # "dict"
    THEN Raise(<<"'", v.t, "' object has no attribute 'get'">>)
    ELSE IF key \in DOMAIN v.fields THEN Ok(v.fields[key]) ELSE Ok(default)

Min(a, b) == IF a < b THEN a ELSE b

IssueFieldLimit == 400

\* v[:n]
Slice(v, n) ==
    CASE v.t = "str" -> Ok(JStr(SubSeq(v.s, 1, Min(n, Len(v.s)))))
      [] v.t = "list" -> Ok(JList(SubSeq(v.items, 1, Min(n, Len(v.items)))))
      [] OTHER -> Raise(<<"'", v.t, "' object is not subscriptable">>)

\* g[:400] of the outcome g of a get
SliceOf(g) == IF g.raised THEN g ELSE Slice(g.val, IssueFieldLimit)

(***************************************************************************)
(* The generation collaborator.  One call either throws or returns a       *)
(* message whose content is None, an empty string, a text that is not      *)
(* JSON, or the JSON text of a value.                                      *)
(***************************************************************************)
RawNone == [t |-> "none"]

RawEmpty == [t |-> "empty"]

RawMalformed == [t |-> "malformed"]

RawJson(v) == [t |-> "json", value |-> v]

Throws(m) == [kind |-> "throw", msg |-> m]

Replies(raw) == [kind |-> "reply", content |-> raw]

\* json.loads(raw)
json_loads(raw) ==
    IF raw.t = "json" THEN Ok(raw.value)
    ELSE Raise(<<"Expecting value: line 1 column 1 (char 0)">>)

FullIssue ==
    JObj([excerpt |-> JStr(<<"a">>), issue |-> JStr(<<"a">>),
          suggested_fix |-> JStr(<<"a">>)])

\* the most issues the prompt asks the collaborator for (line 302)
MaxIssues == 10

\* a string one character longer than the limit of an issue's sub-field
LongString == [i \in 1..(IssueFieldLimit + 1) |-> "a"]

LongIssue ==
    JObj([excerpt |-> JStr(LongString), issue |-> JStr(<<"a">>),
          suggested_fix |-> JStr(LongString)])

\* one issue more than the prompt asks for
TooManyIssues == [i \in 1..(MaxIssues + 1) |-> FullIssue]

IssueEntries ==
    {FullIssue,
     LongIssue,
     JObj([excerpt |-> JStr(<<"a">>)]),
     JObj(<<>>),
     JNull,
     JStr(<<"a">>),
     JObj([excerpt |-> JNull, issue |-> JStr(<<"a">>)]),
     JObj([excerpt |-> JStr(<<"a">>), issue |-> JNum(1)])}

IssuesValues ==
    {JNull, JList(<<>>), JList(<<FullIssue, FullIssue>>),
     JList(TooManyIssues)}
        \cup {JList(<<i>>) : i \in IssueEntries}

JsonValues ==
    {JNull, JList(<<>>), JStr(<<"a">>), JObj(<<>>),
     JObj([feedback |-> JStr(<<"a">>), enhanced_version |-> JStr(<<"a">>)])}
        \cup {JObj([feedback |-> JStr(<<"a">>),
                    enhanced_version |-> JStr(<<"a">>), issues |-> i]) :
                 i \in IssuesValues}

Responses ==
    {Throws(<<"Connection error.">>), Replies(RawNone), Replies(RawEmpty),
     Replies(RawMalformed)}
        \cup {Replies(RawJson(v)) : v \in JsonValues}

(***************************************************************************)
(* EducationAgent._generate_analysis.  The result carries the returned     *)
(* dict, the increment of metrics["gpt_calls"] and the requests sent to    *)
(* the collaborator.  purpose and extra_context only shape the request     *)
(* text and are left out: the reply is any of Responses whatever is sent.  *)
(***************************************************************************)
LongBudget == 4000

ShortBudget == 2000

Ellipsis == <<".", ".", ".">>

\* a text of n letters
Letters(n) == [i \in 1..n |-> "a"]

\* a text one character over the budget b whose last two characters within
\* the budget are blanks
BlankAtCut(b) == [i \in 1..(b + 1) |-> IF i \in {b - 1, b} THEN " " ELSE "a"]

\* texts at and just over the two budgets
LongTexts ==
    UNION {{Letters(b), Letters(b + 1), BlankAtCut(b)} :
              b \in {ShortBudget, LongBudget}}

Trimmed_no_rstrip(text, doc_type) ==
    LET max_chars == IF doc_type \in {"sop", "cv", "motivation letter"}
                     THEN LongBudget ELSE ShortBudget
    IN  IF Len(text) > max_chars
        THEN SubSeq(text, 1, max_chars) \o Ellipsis
        ELSE text

Trimmed(text, doc_type) ==
    LET max_chars == IF doc_type \in {"sop", "cv", "motivation letter"}
                     THEN LongBudget ELSE ShortBudget
    IN  IF Len(text) > max_chars
        THEN RStrip(SubSeq(text, 1, max_chars)) \o Ellipsis
        ELSE text

ParseFallback ==
    JObj([feedback |-> JStr(<<"Could not parse structured output.">>),
          enhanced_version |-> JStr(<<>>),
          issues |-> JList(<<>>)])

ParseReply_propagates(content) ==
    LET raw == IF content.t \in {"none", "empty"} THEN RawJson(JObj(<<>>))
               ELSE content
    IN  json_loads(raw)

\* raw = content or "{}", then json.loads under its own try/except
ParseReply(content) ==
    LET raw == IF content.t \in {"none", "empty"} THEN RawJson(JObj(<<>>))
               ELSE content
        parsed == json_loads(raw)
    IN  IF parsed.raised THEN Ok(ParseFallback) ELSE parsed

\* (it or {}).get(k, "")[:400]
IssueField(it, k) ==
    SliceOf(Get(IF Truthy(it) THEN it ELSE JObj(<<>>), k, JStr(<<>>)))

IssueDict(e, i, f) ==
    IF e.raised THEN e
    ELSE IF i.raised THEN i
    ELSE IF f.raised THEN f
    ELSE Ok([excerpt |-> e.val, issue |-> i.val, suggested_fix |-> f.val])

NormalizeIssue(it) ==
    IssueDict(IssueField(it, "excerpt"), IssueField(it, "issue"),
              IssueField(it, "suggested_fix"))

Prepend(h, r) ==
    IF h.raised THEN h ELSE IF r.raised THEN r ELSE Ok(<<h.val>> \o r.val)

\* the loop of lines 335-340; the first entry that raises ends it
RECURSIVE NormalizeIssues(_)
NormalizeIssues(items) ==
    IF items = <<>> THEN Ok(<<>>)
    ELSE Prepend(NormalizeIssue(Head(items)), NormalizeIssues(Tail(items)))

\* the dict of the except branch
AnalysisFailed(text, m) ==
    [text |-> text, feedback |-> JStr(<<"Analysis failed.">>),
     enhanced_version |-> JStr(<<>>), issues |-> <<>>, error |-> m]

\* lines 342-348, or the except branch when normalising the issues raised
ReviewResult(text, trimmed, request, data, normalized_issues) ==
    IF normalized_issues.raised
    THEN [ret |-> AnalysisFailed(text, normalized_issues.msg),
          gpt |-> 1, requests |-> <<request>>]
    ELSE [ret |-> [text |-> trimmed,
                   feedback |-> Get(data, "feedback", JStr(<<>>)).val,
                   enhanced_version |->
                       Get(data, "enhanced_version", JStr(<<>>)).val,
                   issues |-> normalized_issues.val,
                   error |-> <<>>],
          gpt |-> 1, requests |-> <<request>>]

\* lines 331-340: issues = data.get("issues", []), [] unless a list
NormalizedIssues(got) ==
    IF got.raised THEN got
    ELSE IF got.val.t = "list" THEN NormalizeIssues(got.val.items)
    ELSE NormalizeIssues(<<>>)

\* from line 328 on: gpt_calls is incremented once data is there
AfterParse(text, trimmed, request, data) ==
    IF data.raised
    THEN [ret |-> AnalysisFailed(text, data.msg), gpt |-> 0,
          requests |-> <<request>>]
    ELSE ReviewResult(text, trimmed, request, data.val,
                      NormalizedIssues(Get(data.val, "issues", JList(<<>>))))

\* lines 306-326: the one call of the collaborator and the parse of its reply
Review(text, trimmed, request, resp) ==
    IF resp.kind = "throw"
    THEN [ret |-> AnalysisFailed(text, resp.msg), gpt |-> 0,
          requests |-> <<request>>]
    ELSE AfterParse(text, trimmed, request, ParseReply(resp.content))

\* lines 293-304: the request payload
BuildRequest(text, doc_type, trimmed, resp) ==
    Review(text, trimmed, [document_type |-> doc_type, text |-> trimmed], resp)

_generate_analysis(text, doc_type, resp) ==
    BuildRequest(text, doc_type, Trimmed(text, doc_type), resp)

(***************************************************************************)
(* EducationAgent.analyze_document.  env is what the run meets outside the *)
(* arguments: whether libmagic works and what the collaborator answers.    *)
(***************************************************************************)
Failure(m) ==
    [text |-> <<>>, feedback |-> JStr(<<>>), enhanced_version |-> JStr(<<>>),
     issues |-> <<>>, error |-> m]

NormalizeDocType(doc_type) ==
    LET d == Lower(StripName(doc_type))
    IN  IF d = "resume" THEN "cv" ELSE d

\* the text of lines 176-198: Ok(text), a raised exception, or no branch
ExtractText(file, file_type) ==
    CASE file_type = "pdf" -> parse_uploaded_file(file, "application/pdf")
      [] file_type = "jpg" -> parse_uploaded_file(file, "image/jpg")
      [] file_type = "png" -> parse_uploaded_file(file, "image/png")
      [] file_type = "docx" ->
            IF Document(file).raised THEN Document(file)
            ELSE Ok(JoinNL(Document(file).val))
      [] file_type = "txt" -> Ok(decode(file))
      [] OTHER -> [raised |-> FALSE, nobranch |-> TRUE]

\* lines 212-219: the fields of the analysis passed through
AfterReview(analysis) ==
    [raised |-> FALSE, val |-> analysis.ret,
     trace |-> <<"validate", "detect", "is_supported", "extract", "generate">>,
     gpt |-> analysis.gpt, requests |-> analysis.requests]

AfterExtract_no_strip(file_type, dt, ex, env) ==
    IF ex.raised
    THEN [raised |-> TRUE, msg |-> ex.msg,
          trace |-> <<"validate", "detect", "is_supported", "extract">>,
          gpt |-> 0, requests |-> <<>>]
    ELSE IF "nobranch" \in DOMAIN ex
    THEN [raised |-> FALSE,
          val |-> Failure(<<"Unsupported file type: ", file_type>>),
          trace |-> <<"validate", "detect", "is_supported">>,
          gpt |-> 0, requests |-> <<>>]
    ELSE IF ex.val = <<>>
    THEN [raised |-> FALSE,
          val |-> Failure(<<"Extracted text is empty">>),
          trace |-> <<"validate", "detect", "is_supported", "extract">>,
          gpt |-> 0, requests |-> <<>>]
    ELSE AfterReview(_generate_analysis(ex.val, dt, env.resp))

\* lines 191-210: what follows the extraction branches
AfterExtract(file_type, dt, ex, env) ==
    IF ex.raised
    THEN [raised |-> TRUE, msg |-> ex.msg,
          trace |-> <<"validate", "detect", "is_supported", "extract">>,
          gpt |-> 0, requests |-> <<>>]
    ELSE IF "nobranch" \in DOMAIN ex
    THEN [raised |-> FALSE,
          val |-> Failure(<<"Unsupported file type: ", file_type>>),
          trace |-> <<"validate", "detect", "is_supported">>,
          gpt |-> 0, requests |-> <<>>]
    ELSE IF Strip(ex.val) = <<>>
    THEN [raised |-> FALSE,
          val |-> Failure(<<"Extracted text is empty">>),
          trace |-> <<"validate", "detect", "is_supported", "extract">>,
          gpt |-> 0, requests |-> <<>>]
    ELSE AfterReview(_generate_analysis(ex.val, dt, env.resp))

AfterDetect_no_support_check(file, dt, file_type, env) ==
    AfterExtract(file_type, dt, ExtractText(file, file_type), env)

\* lines 167-198: the support check, then the extraction
AfterDetect(file, dt, file_type, env) ==
    IF ~_is_supported(file_type, dt)
    THEN [raised |-> FALSE,
          val |-> Failure(<<"Unsupported ", file_type, " format for ", dt,
                            " analysis">>),
          trace |-> <<"validate", "detect", "is_supported">>,
          gpt |-> 0, requests |-> <<>>]
    ELSE AfterExtract(file_type, dt, ExtractText(file, file_type), env)

\* the body of the try block
analyze_document_body(file, filename, doc_type, env) ==
    IF ~_validate_file(file)
    THEN [raised |-> FALSE,
          val |-> Failure(<<"Invalid file (empty or >200MB)">>),
          trace |-> <<"validate">>, gpt |-> 0, requests |-> <<>>]
    ELSE AfterDetect(file, NormalizeDocType(doc_type),
                     _detect_file_type(file, filename, env.magic_ok), env)

\* the except clause of lines 221-229
CatchAll(r) ==
    IF r.raised
    THEN [raised |-> FALSE,
          val |-> Failure(<<"Analysis failed: ">> \o r.msg),
          trace |-> r.trace, gpt |-> r.gpt, requests |-> r.requests]
    ELSE r

analyze_document_no_except(file, filename, doc_type, env) ==
    analyze_document_body(file, filename, doc_type, env)

analyze_document(file, filename, doc_type, env) ==
    CatchAll(analyze_document_body(file, filename, doc_type, env))

(***************************************************************************)
(* The running user profile.  backend.py declares it in                    *)
(* _init_user_profile with every field None; the step that extracts        *)
(* profile fields from a chat message and merges them is written here from *)
(* the specification (section 3, UserProfile; section 4.5,                 *)
(* ProfileExtractor).  Field values are JSON values; a GPA is counted in   *)
(* tenths of a grade point (4.8 is 48).                                    *)
(***************************************************************************)
ProfileFields == {"degree", "field_of_study", "country", "gpa", "budget"}

Null == JNull

\* the 0.0-4.0 scale, in tenths
GpaMin == 0

GpaMax == 40

_init_user_profile == [f \in ProfileFields |-> Null]

\* what the collaborator may report for a field when it reports the field
FieldValues(f) ==
    CASE f = "degree" -> {JStr(<<"Master's">>), JStr(<<"PhD">>)}
      [] f = "field_of_study" -> {JStr(<<"Physics">>)}
      [] f = "country" -> {Null, JStr(<<"UK">>)}
      [] f = "gpa" -> {JNum(GpaMax), JNum(GpaMax + 8)}
      [] f = "budget" -> {JNum(20000)}

\* the field sets of one extraction: the subset of fields one message names
FieldSets == {F \in SUBSET ProfileFields : Cardinality(F) <= MaxFields}

\* an extraction: the parsed reply, a dict over the fields it reports
ExtractionsOver(F) == {e \in [F -> UNION {FieldValues(f) : f \in F}] :
                          \A f \in F : e[f] \in FieldValues(f)}

Extractions == UNION {ExtractionsOver(F) : F \in FieldSets}

\* a reply that does not parse
ParseFailure == [malformed |-> TRUE]

ProfileReplies == {ParseFailure} \cup Extractions

\* the extraction supplies a non-null value for the field
Supplied(ext, f) == f \in DOMAIN ext /\ ext[f] # Null

ValidGpa(v) == v.t = "int" /\ v.n >= GpaMin /\ v.n <= GpaMax

\* the supplied value can be stored
Storable(ext, f) == Supplied(ext, f) /\ (f = "gpa" => ValidGpa(ext[f]))

MergeField_clamps(profile, ext, f) ==
    IF Storable(ext, f) THEN ext[f]
    ELSE IF Supplied(ext, f) THEN JNum(GpaMax)
    ELSE profile[f]

\* a field is set only when the extraction supplies a storable value
MergeField(profile, ext, f) ==
    IF Storable(ext, f) THEN ext[f] ELSE profile[f]

\* dict.update with the validated extraction: a reported null overwrites
merge_profile_blind_update(profile, ext) ==
    [f \in ProfileFields |->
        IF f \in DOMAIN ext /\ (Supplied(ext, f) => Storable(ext, f))
        THEN ext[f] ELSE profile[f]]

merge_profile(profile, ext) ==
    [f \in ProfileFields |-> MergeField(profile, ext, f)]

\* the validation errors of one extraction
ValidationErrors(ext) ==
    IF Supplied(ext, "gpa") /\ ~ValidGpa(ext["gpa"])
    THEN <<"gpa outside the 0.0-4.0 scale">> ELSE <<>>

\* extract_and_merge(message, profile): reply is the collaborator's answer
\* to the message
extract_and_merge(profile, reply) ==
    IF reply = ParseFailure
    THEN [profile |-> profile, errors |-> <<>>, parsed |-> FALSE]
    ELSE [profile |-> merge_profile(profile, reply),
          errors |-> ValidationErrors(reply), parsed |-> TRUE]

(***************************************************************************)
(* EducationAgent.generate_response and _fetch_scholarships.  The cache is *)
(* the diskcache store of line 57, read here as a map from every digest to *)
(* the value stored under it, or Absent.  An entry is stored with          *)
(* expire=24*3600 and leaves the cache when that time has passed.          *)
(***************************************************************************)
Prompts == {"Which scholarships fit me?", "How do I write an SOP?"}

\* hashlib.md5(prompt.encode()).hexdigest(): the digest of the prompt
md5(prompt) == [md5 |-> prompt]

Digests == {md5(prompt) : prompt \in Prompts}

Absent == [t |-> "absent"]

\* the context argument: None, an empty history, a history of one message
Contexts ==
    {JNull, JList(<<>>),
     JList(<<[role |-> "user", content |-> "Hello"]>>)}

\* the contents a completion may carry
Answers == {JStr(<<"answer 1">>), JStr(<<"answer 2">>), JNull}

\* one call of chat.completions.create: it throws, it returns a completion
\* without choices, or it returns a completion with a content
NoChoices == [kind |-> "no_choices"]

ChatResponses ==
    {Throws(<<"Connection error.">>), NoChoices}
        \cup {Replies(a) : a \in Answers}

\* what feedparser.parse gives for one feed: it raises, or the titles of
\* the feed's entries
FeedOutcomes ==
    {Raise(<<"feed unreachable">>), Ok(<<>>), Ok(<<"t1">>),
     Ok(<<"t1", "t2", "t3", "t4", "t5", "t6">>)}

FeedLimit == 5

\* feed.entries[:5] of one feed, nothing when the feed raised
FeedItems(outcome) ==
    IF outcome.raised THEN <<>>
    ELSE SubSeq(outcome.val, 1, Min(FeedLimit, Len(outcome.val)))

\* feeds[1], feeds[2] are the outcomes of the two scholarship_feeds
_fetch_scholarships(feeds) == FeedItems(feeds[1]) \o FeedItems(feeds[2])

ErrorReply ==
    JStr(<<"Sorry, I encountered an error processing your request. Please try again.">>)

\* the except clause of lines 394-396
ChatFailed(c, request, gpt) ==
    [ret |-> ErrorReply, gpt |-> gpt, hits |-> 0, cache |-> c,
     trace |-> <<"fetch", "generate">>, requests |-> <<request>>,
     stored |-> FALSE]

Chat_caches_failure(prompt, c, request, resp) ==
    IF resp.kind = "throw"
    THEN [ChatFailed(c, request, 0) EXCEPT
             !.cache = [c EXCEPT ![md5(prompt)] = ErrorReply]]
    ELSE IF resp.kind = "no_choices" THEN ChatFailed(c, request, 1)
    ELSE [ret |-> resp.content, gpt |-> 1, hits |-> 0,
          cache |-> [c EXCEPT ![md5(prompt)] = resp.content],
          trace |-> <<"fetch", "generate">>, requests |-> <<request>>,
          stored |-> TRUE]

\* lines 381-393: the call, the counter, choices[0], cache.set
Chat(prompt, c, request, resp) ==
    IF resp.kind = "throw" THEN ChatFailed(c, request, 0)
    ELSE IF resp.kind = "no_choices" THEN ChatFailed(c, request, 1)
    ELSE [ret |-> resp.content, gpt |-> 1, hits |-> 0,
          cache |-> [c EXCEPT ![md5(prompt)] = resp.content],
          trace |-> <<"fetch", "generate">>, requests |-> <<request>>,
          stored |-> TRUE]

\* lines 371-386: messages = context or [the prompt with the scholarships]
AfterFetch(prompt, context, c, scholarships, resp) ==
    Chat(prompt, c,
         IF Truthy(context) THEN [messages |-> context]
         ELSE [scholarships |-> scholarships, prompt |-> prompt],
         resp)

\* c is self.cache, env the outcomes of the two feeds and of the call
generate_response(prompt, context, c, env) ==
    IF c[md5(prompt)] # Absent
    THEN [ret |-> c[md5(prompt)], gpt |-> 0, hits |-> 1, cache |-> c,
          trace |-> <<>>, requests |-> <<>>, stored |-> FALSE]
    ELSE AfterFetch(prompt, context, c, _fetch_scholarships(env.feeds),
                    env.resp)

(***************************************************************************)
(* The /chat endpoint of main.py and SecurityManager.validate_api_key.     *)
(* main.py imports the agent under the name EduBot; it is read here as     *)
(* EducationAgent.  A request carries the message and, or not, an          *)
(* X-API-KEY header; the environment has API_KEY set to a string or unset. *)
(***************************************************************************)
NoHeader == [t |-> "missing"]

Header(v) == [t |-> "header", v |-> v]

\* the X-API-KEY header of a request
HeaderValues == {NoHeader, Header(""), Header("k1"), Header("k2")}

\* os.getenv("API_KEY"): None when unset, else the string
ApiKeySettings == {JNull, JStr(""), JStr("k1")}

\* APIKeyHeader(name="X-API-KEY", auto_error=False): the header's value, or
\* None when the header is missing or empty
api_key_header(h) ==
    IF h.t = "header" /\ h.v # "" THEN JStr(h.v) ELSE JNull

\* lines 47-50: HTTPException(403) unless the key equals os.getenv("API_KEY")
validate_api_key(api_key, configured) ==
    IF api_key # configured THEN Raise(<<"Invalid API key">>) ELSE Ok(TRUE)

Forbidden == 403

\* main.py line 21, after the key was accepted
ChatAnswered(r) ==
    [status |-> 200, body |-> r.ret, gpt |-> r.gpt, hits |-> r.hits,
     cache |-> r.cache, stored |-> r.stored, requests |-> r.requests,
     trace |-> <<"validate_api_key", "generate_response">> \o r.trace]

\* main.py lines 18-21; v is the outcome of validate_api_key
AfterValidate(message, v, c, env) ==
    IF v.raised
    THEN [status |-> Forbidden, body |-> JStr(v.msg), gpt |-> 0, hits |-> 0,
          cache |-> c, stored |-> FALSE, requests |-> <<>>,
          trace |-> <<"validate_api_key">>]
    ELSE ChatAnswered(generate_response(message, JNull, c, env))

chat_endpoint(message, h, c, env) ==
    AfterValidate(message,
                  validate_api_key(api_key_header(h), env.API_KEY), c, env)

(***************************************************************************)
(* The agent as a state machine: metrics is EducationAgent.metrics, call   *)
(* is the call in progress on the agent with its arguments, what it met    *)
(* outside them, and its outcome, until the caller takes the result.       *)
(* Calls do not overlap (one request at a time).                           *)
(***************************************************************************)
Idle == [fn |-> "idle"]

FormatTags == {"pdf", "docx", "txt", "jpg", "png", "doc", "jpeg", "unknown"}

Envs == [magic_ok : BOOLEAN, resp : Responses]

Init ==
    /\ metrics = [gpt_calls |-> 0, cache_hits |-> 0]
    /\ call = Idle
    /\ user = _init_user_profile
    /\ log = <<>>
    /\ cache = [k \in Digests |-> Absent]
    /\ answered = [prompt \in Prompts |-> Absent]

IsSupported ==
    /\ call = Idle
    /\ \E file_type \in FormatTags, doc_type \in Categories :
        /\ call' = [fn |-> "_is_supported",
                    args |-> [file_type |-> file_type, doc_type |-> doc_type],
                    raised |-> FALSE,
                    ret |-> _is_supported(file_type, doc_type)]
        /\ UNCHANGED <<metrics, user, log, cache, answered>>

DetectFileType ==
    /\ call = Idle
    /\ \E file \in Files, filename \in Filenames, magic_ok \in BOOLEAN :
        /\ call' = [fn |-> "_detect_file_type",
                    args |-> [file |-> file, filename |-> filename],
                    env |-> [magic_ok |-> magic_ok],
                    raised |-> FALSE,
                    ret |-> _detect_file_type(file, filename, magic_ok)]
        /\ UNCHANGED <<metrics, user, log, cache, answered>>

ParseUploadedFile ==
    /\ call = Idle
    /\ \E file \in Files, file_type \in FileTypeStrings :
        LET r == parse_uploaded_file(file, file_type)
        IN  /\ call' = [fn |-> "parse_uploaded_file",
                        args |-> [file |-> file, file_type |-> file_type],
                        raised |-> r.raised,
                        ret |-> IF r.raised THEN r.msg ELSE r.val]
            /\ UNCHANGED <<metrics, user, log, cache, answered>>

GenerateAnalysis ==
    /\ call = Idle
    /\ \E text \in Texts \cup LongTexts, doc_type \in Categories,
          resp \in Responses :
        LET r == _generate_analysis(text, doc_type, resp)
        IN  /\ metrics.gpt_calls < MaxCalls
            /\ call' = [fn |-> "_generate_analysis",
                        args |-> [text |-> text, doc_type |-> doc_type],
                        env |-> [resp |-> resp],
                        raised |-> FALSE,
                        ret |-> r.ret,
                        requests |-> r.requests]
            /\ metrics' = [metrics EXCEPT !.gpt_calls = @ + r.gpt]
            /\ UNCHANGED <<user, log, cache, answered>>

AnalyzeDocument ==
    /\ call = Idle
    /\ \E file \in Files, filename \in Filenames, doc_type \in Categories,
       env \in Envs :
        LET r == analyze_document(file, filename, doc_type, env)
        IN  /\ metrics.gpt_calls < MaxCalls
            /\ call' = [fn |-> "analyze_document",
                        args |-> [file |-> file, filename |-> filename,
                                  doc_type |-> doc_type],
                        env |-> env,
                        raised |-> r.raised,
                        ret |-> IF r.raised THEN r.msg ELSE r.val,
                        trace |-> r.trace,
                        requests |-> r.requests]
            /\ metrics' = [metrics EXCEPT !.gpt_calls = @ + r.gpt]
            /\ UNCHANGED <<user, log, cache, answered>>

\* the caller takes the result
Return ==
    /\ call # Idle
    /\ call' = Idle
    /\ UNCHANGED <<metrics, user, log, cache, answered>>

Next ==
    \/ Return
    \/ IsSupported
    \/ DetectFileType
    \/ ParseUploadedFile
    \/ GenerateAnalysis
    \/ AnalyzeDocument

Spec == Init /\ [][Next]_vars

(***************************************************************************)
(* The profile of one conversation: user is the running profile, log the   *)
(* append-only log of the extractions merged into it.                      *)
(***************************************************************************)
ExtractAndMerge ==
    /\ call = Idle
    /\ Len(log) < MaxMerges
    /\ \E reply \in ProfileReplies :
        /\ call' = [fn |-> "extract_and_merge",
                    args |-> [profile |-> user],
                    env |-> [reply |-> reply],
                    raised |-> FALSE,
                    ret |-> extract_and_merge(user, reply).profile,
                    errors |-> extract_and_merge(user, reply).errors]
        /\ user' = extract_and_merge(user, reply).profile
        /\ log' = IF extract_and_merge(user, reply).parsed
                  THEN Append(log, reply) ELSE log
        /\ UNCHANGED <<metrics, cache, answered>>

NextProfile ==
    \/ Return
    \/ ExtractAndMerge

SpecProfile == Init /\ [][NextProfile]_vars

(***************************************************************************)
(* The chat: cache is EducationAgent.cache; answered keeps, for every      *)
(* prompt, the answer of the last call that generated one (Absent when     *)
(* none did).                                                              *)
(***************************************************************************)
ChatEnvs == [feeds : [1..2 -> FeedOutcomes], resp : ChatResponses]

GenerateResponse ==
    /\ call = Idle
    /\ metrics.gpt_calls < MaxCalls
    /\ metrics.cache_hits < MaxHits
    /\ \E prompt \in Prompts, context \in Contexts, env \in ChatEnvs :
        LET r == generate_response(prompt, context, cache, env)
        IN  /\ call' = [fn |-> "generate_response",
                        args |-> [prompt |-> prompt, context |-> context],
                        env |-> env,
                        raised |-> FALSE,
                        ret |-> r.ret,
                        trace |-> r.trace,
                        requests |-> r.requests]
            /\ metrics' = [metrics EXCEPT !.gpt_calls = @ + r.gpt,
                                          !.cache_hits = @ + r.hits]
            /\ cache' = r.cache
            /\ answered' = IF r.stored
                           THEN [answered EXCEPT ![prompt] = r.ret]
                           ELSE answered
            /\ UNCHANGED <<user, log>>

\* 24 hours after it was stored an entry is gone
Expire ==
    /\ call = Idle
    /\ \E k \in Digests :
        /\ cache[k] # Absent
        /\ cache' = [cache EXCEPT ![k] = Absent]
    /\ UNCHANGED <<metrics, call, user, log, answered>>

NextChat ==
    \/ Return
    \/ GenerateResponse
    \/ Expire

SpecChat == Init /\ [][NextChat]_vars

(***************************************************************************)
(* The HTTP service of main.py: one agent behind the /chat endpoint.       *)
(***************************************************************************)
ApiEnvs ==
    [feeds : [1..2 -> FeedOutcomes], resp : ChatResponses,
     API_KEY : ApiKeySettings]

ChatEndpoint ==
    /\ call = Idle
    /\ metrics.gpt_calls < MaxCalls
    /\ metrics.cache_hits < MaxHits
    /\ \E message \in Prompts, h \in HeaderValues, env \in ApiEnvs :
        LET r == chat_endpoint(message, h, cache, env)
        IN  /\ call' = [fn |-> "chat_endpoint",
                        args |-> [message |-> message, header |-> h],
                        env |-> env,
                        raised |-> FALSE,
                        status |-> r.status,
                        ret |-> r.body,
                        trace |-> r.trace,
                        requests |-> r.requests]
            /\ metrics' = [metrics EXCEPT !.gpt_calls = @ + r.gpt,
                                          !.cache_hits = @ + r.hits]
            /\ cache' = r.cache
            /\ answered' = IF r.stored
                           THEN [answered EXCEPT ![message] = r.body]
                           ELSE answered
            /\ UNCHANGED <<user, log>>

NextApi ==
    \/ Return
    \/ ChatEndpoint
    \/ Expire

SpecApi == Init /\ [][NextApi]_vars

(***************************************************************************)
(* Properties.                                                             *)
(***************************************************************************)
ContentTags == {"pdf", "docx", "txt", "jpg", "png"}

\* the support matrix as the specification gives it
MatrixFormats(doc_category) ==
    CASE doc_category \in {"cv", "resume"} -> {"pdf", "docx"}
      [] doc_category \in {"sop", "motivation letter"} ->
            {"pdf", "docx", "jpg", "png"}
      [] doc_category = "transcript" -> {"pdf", "jpg", "png"}
      [] OTHER -> {}

IsFailureShape(r) ==
    /\ r.error # <<>>
    /\ r.text = <<>>
    /\ r.feedback = JStr(<<>>)
    /\ r.enhanced_version = JStr(<<>>)
    /\ r.issues = <<>>

TooBigOrEmpty(file) == file.len = 0 \/ file.len > MaxFileSize

\* C1: _is_supported returns TRUE for exactly the pairs of the support
\* matrix (cv/resume: pdf, docx; sop/motivation letter: pdf, docx, jpg, png;
\* transcript: pdf, jpg, png) and FALSE for every other pair.
C1_SupportMatrixExact ==
    call.fn = "_is_supported" =>
        (call.ret <=> call.args.file_type \in MatrixFormats(call.args.doc_type))

\* C2: in every result of analyze_document a non-empty error comes with
\* empty text, feedback and enhanced_version and an empty issues list, also
\* when the generation call throws.
C2_ErrorExcludesContent ==
    (call.fn = "analyze_document" /\ ~call.raised /\ call.ret.error # <<>>) =>
        IsFailureShape(call.ret)

\* C3: for an empty payload or one above 200 MiB analyze_document returns
\* the uniform failure shape without raising, and runs no type detection,
\* no extraction and no generation call.
C3_InvalidPayloadRejected ==
    (call.fn = "analyze_document" /\ TooBigOrEmpty(call.args.file)) =>
        /\ ~call.raised
        /\ IsFailureShape(call.ret)
        /\ call.trace = <<"validate">>
        /\ call.requests = <<>>

C3_Witness ==
    /\ call.fn = "analyze_document"
    /\ call.args.file.len = 0
    /\ ~call.raised
    /\ call.ret.error = <<"Invalid file (empty or >200MB)">>

\* C4: when libmagic recognises the content, the detected tag is the same
\* under every filename; PNG content named resume.pdf with category cv is
\* rejected with an error that names the detected type png.
C4_ContentDecidesTag ==
    /\ (/\ call.fn = "_detect_file_type"
        /\ call.env.magic_ok
        /\ call.args.file.mime \in DOMAIN type_map) =>
            \A other \in Filenames :
                _detect_file_type(call.args.file, other, TRUE) = call.ret
    /\ (/\ call.fn = "analyze_document"
        /\ call.env.magic_ok
        /\ call.args.file.mime = "image/png"
        /\ call.args.filename = [stem |-> "resume", ext |-> "pdf"]
        /\ call.args.doc_type = "cv") =>
            /\ ~call.raised
            /\ call.ret.error =
                   <<"Unsupported ", "png", " format for ", "cv", " analysis">>
            /\ call.trace = <<"validate", "detect", "is_supported">>

C4_Witness ==
    /\ call.fn = "analyze_document"
    /\ call.env.magic_ok
    /\ call.args.file.mime = "image/png"
    /\ call.args.filename = [stem |-> "resume", ext |-> "pdf"]
    /\ call.args.doc_type = "cv"
    /\ ~call.raised
    /\ call.ret.error[2] = "png"

\* the tag the specification derives from a filename extension
ExtensionTag(filename) ==
    LET e == Lower(Suffix(filename))
    IN  IF e = "jpeg" THEN "jpg"
        ELSE IF e \in ContentTags THEN e
        ELSE "unknown"

\* C5: _detect_file_type never raises and returns one of pdf, docx, txt,
\* jpg, png, unknown; with an unrecognised signature or failed sniffing the
\* tag is the lower-cased extension, jpeg normalised to jpg, and unknown
\* when the extension is not a recognised tag.
C5_DetectClosedOverTags ==
    call.fn = "_detect_file_type" =>
        /\ ~call.raised
        /\ call.ret \in ContentTags \cup {"unknown"}
        /\ (~call.env.magic_ok \/ call.args.file.mime \notin DOMAIN type_map) =>
                call.ret = ExtensionTag(call.args.filename)

\* the reply is a string that json.loads rejects: "" or a malformed text
NotJson(resp) ==
    resp.kind = "reply" /\ resp.content.t \in {"empty", "malformed"}

ResultKeys == {"text", "feedback", "enhanced_version", "issues", "error"}

\* C7: analyze_document never raises; whatever detection, extraction and
\* the collaborator do, it returns a dict with the keys text, feedback,
\* enhanced_version, issues and error.
C7_AnalyzeNeverRaises ==
    call.fn = "analyze_document" =>
        /\ ~call.raised
        /\ DOMAIN call.ret = ResultKeys

C7_Witness ==
    /\ call.fn = "analyze_document"
    /\ ~call.raised
    /\ call.ret.error # <<>>
    /\ call.ret.error[1] = "Analysis failed: "
    /\ call.trace = <<"validate", "detect", "is_supported", "extract">>

WellBehaved(resp) ==
    /\ resp.kind = "reply"
    /\ resp.content.t = "json"
    /\ resp.content.value.t = "dict"
    /\ "feedback" \in DOMAIN resp.content.value.fields
    /\ resp.content.value.fields.feedback = JStr(<<"a">>)
    /\ "issues" \in DOMAIN resp.content.value.fields
    /\ resp.content.value.fields.issues \in
           {JList(<<>>), JList(<<FullIssue>>), JList(<<FullIssue, FullIssue>>)}

\* C8: a non-empty plain-text upload with category sop is accepted: with a
\* well-behaved collaborator the result has an empty error and a non-empty
\* feedback.
C8_PlainTextSopAccepted ==
    (/\ call.fn = "analyze_document"
     /\ call.args.file.kind = "txt"
     /\ Strip(call.args.file.utf8) # <<>>
     /\ call.args.doc_type = "sop"
     /\ call.env.magic_ok
     /\ WellBehaved(call.env.resp)) =>
        /\ ~call.raised
        /\ call.ret.error = <<>>
        /\ call.ret.feedback # JStr(<<>>)

\* C9: parse_uploaded_file never returns the empty string: for every file
\* type it returns non-empty text or raises ValueError.
C9_NoEmptySuccess ==
    (call.fn = "parse_uploaded_file" /\ ~call.raised) => call.ret # <<>>

\* every page of the PDF is without text (no text layer, or blank)
NoTextLayer(file) ==
    /\ file.kind = "pdf"
    /\ \A i \in DOMAIN file.parts : Strip(file.parts[i]) = <<>>

\* C10: for a PDF whose pages yield no text, extraction raises the
\* "No extractable text found in PDF" error, and analyze_document, once it
\* has accepted the file as a pdf, returns a failure result carrying that
\* message, not an empty-text success and not "Extracted text is empty".
C10_ScannedPdfDistinctError ==
    /\ (/\ call.fn = "parse_uploaded_file"
        /\ NoTextLayer(call.args.file)
        /\ _normalize_kind(call.args.file_type) = "pdf") =>
            /\ call.raised
            /\ call.ret = NoPdfTextMsg
    /\ (/\ call.fn = "analyze_document"
        /\ NoTextLayer(call.args.file)
        /\ ~TooBigOrEmpty(call.args.file)
        /\ _detect_file_type(call.args.file, call.args.filename,
                             call.env.magic_ok) = "pdf"
        /\ "extract" \in {call.trace[i] : i \in DOMAIN call.trace}) =>
            /\ ~call.raised
            /\ IsFailureShape(call.ret)
            /\ call.ret.error = <<"Analysis failed: ">> \o NoPdfTextMsg
            /\ call.ret.error # <<"Extracted text is empty">>

C10_Witness ==
    /\ call.fn = "analyze_document"
    /\ NoTextLayer(call.args.file)
    /\ Len(call.args.file.parts) > 0
    /\ ~call.raised
    /\ call.ret.error = <<"Analysis failed: ">> \o NoPdfTextMsg

\* the tag analyze_document works with once the payload passed the size check
Detected(c) ==
    _detect_file_type(c.args.file, c.args.filename, c.env.magic_ok)

\* what the extraction branch of an accepted upload handed back
Extracted(c) == ExtractText(c.args.file, Detected(c))

\* the upload passed the size check and the support check
Accepted(c) ==
    /\ ~TooBigOrEmpty(c.args.file)
    /\ _is_supported(Detected(c), NormalizeDocType(c.args.doc_type))

YieldsBlank(ex) ==
    /\ ~ex.raised
    /\ "val" \in DOMAIN ex
    /\ Strip(ex.val) = <<>>

\* C11: whenever the extraction of an accepted upload yields an empty or
\* all-whitespace string, analyze_document returns the failure shape with
\* the error "Extracted text is empty" and the collaborator is not called.
C11_BlankTextRejected ==
    (/\ call.fn = "analyze_document"
     /\ Accepted(call)
     /\ YieldsBlank(Extracted(call))) =>
        /\ ~call.raised
        /\ IsFailureShape(call.ret)
        /\ call.ret.error = <<"Extracted text is empty">>
        /\ call.requests = <<>>

\* a docx whose only paragraph is a blank: the joined text is " "
C11_Witness ==
    /\ call.fn = "analyze_document"
    /\ Accepted(call)
    /\ YieldsBlank(Extracted(call))
    /\ Extracted(call).val # <<>>
    /\ call.ret.error = <<"Extracted text is empty">>
    /\ call.requests = <<>>

\* the positions of the log that supplied a storable value for the field
Suppliers(f) == {i \in DOMAIN log : Storable(log[i], f)}

Latest(S) == CHOOSE i \in S : \A j \in S : j <= i

\* the most recent non-null value the merged extractions supplied
LastSupplied(f) ==
    IF Suppliers(f) = {} THEN Null ELSE log[Latest(Suppliers(f))][f]

\* C12: the profile merge is non-destructive, last-write-wins per field and
\* idempotent: after any sequence of merges every field holds the most
\* recent non-null value supplied for it (for gpa: the most recent value on
\* the scale, see C13), a null or absent incoming field never erases a
\* value the profile had, and merging the extraction just merged once more
\* leaves the profile as it is.
C12_MergeLastWriteWins ==
    /\ \A f \in ProfileFields : user[f] = LastSupplied(f)
    /\ (call.fn = "extract_and_merge") =>
        /\ \A f \in ProfileFields :
              (call.args.profile[f] # Null /\ ~Supplied(call.env.reply, f))
                  => user[f] = call.args.profile[f]
        /\ extract_and_merge(user, call.env.reply).profile = user

\* country UK was merged, then an extraction reporting country null and a
\* new degree: the country stays, the degree is the newer one
C12_Witness ==
    /\ call.fn = "extract_and_merge"
    /\ Len(log) = MaxMerges
    /\ Supplied(log[1], "country")
    /\ Supplied(log[1], "degree")
    /\ "country" \in DOMAIN call.env.reply
    /\ call.env.reply["country"] = Null
    /\ Supplied(call.env.reply, "degree")
    /\ call.env.reply["degree"] # log[1]["degree"]
    /\ user["country"] = log[1]["country"]
    /\ user["degree"] = call.env.reply["degree"]

OffScale(ext) == Supplied(ext, "gpa") /\ ~ValidGpa(ext["gpa"])

\* C13: an extracted GPA outside the 0.0-4.0 scale is flagged as a
\* validation error by the merge and is not stored, neither as given nor
\* clamped (the profile keeps the gpa it had); the stored gpa is always
\* null or within the scale.
C13_OffScaleGpaRejected ==
    /\ user["gpa"] = Null \/ ValidGpa(user["gpa"])
    /\ (call.fn = "extract_and_merge" /\ OffScale(call.env.reply)) =>
        /\ call.errors # <<>>
        /\ user["gpa"] = call.args.profile["gpa"]

\* gpa 4.0 was merged, then an extraction with gpa 4.8
C13_Witness ==
    /\ call.fn = "extract_and_merge"
    /\ OffScale(call.env.reply)
    /\ call.args.profile["gpa"] = JNum(GpaMax)
    /\ user["gpa"] = JNum(GpaMax)
    /\ call.errors # <<>>

Stages == <<"validate", "detect", "is_supported", "extract", "generate">>

IsPrefix(t, s) == Len(t) <= Len(s) /\ \A i \in DOMAIN t : t[i] = s[i]

Ran(c, stage) == \E i \in DOMAIN c.trace : c.trace[i] = stage

\* C14: analyze_document runs its stages in the order size check, type
\* detection, format/category validation, extraction, review and stops at
\* the first that fails: a payload failing the size check goes no further,
\* an unsupported pair is never extracted, extraction runs only on an
\* accepted upload, and the collaborator is called only when extraction
\* returned a text that is non-empty after stripping.
C14_StagesInOrder ==
    call.fn = "analyze_document" =>
        /\ IsPrefix(call.trace, Stages)
        /\ TooBigOrEmpty(call.args.file) => call.trace = <<"validate">>
        /\ (~TooBigOrEmpty(call.args.file) /\ ~Accepted(call)) =>
              call.trace = SubSeq(Stages, 1, 3)
        /\ Ran(call, "extract") => Accepted(call)
        /\ (Accepted(call) /\ Extracted(call).raised) =>
              call.trace = SubSeq(Stages, 1, 4)
        /\ (Ran(call, "generate") \/ call.requests # <<>>) =>
              /\ Ran(call, "extract")
              /\ ~Extracted(call).raised
              /\ Strip(Extracted(call).val) # <<>>
              /\ Len(call.requests) = 1

\* every stage ran, and the collaborator was asked once
C14_Witness ==
    /\ call.fn = "analyze_document"
    /\ call.trace = Stages
    /\ Len(call.requests) = 1
    /\ call.ret.error = <<>>

\* C15: every invocation of _generate_analysis makes one generation call,
\* without retry, and adds exactly one to metrics.gpt_calls, whatever the
\* outcome of the call.
C15_OneCallOneCount ==
    [][(call = Idle /\ call'.fn = "_generate_analysis") =>
          /\ Len(call'.requests) = 1
          /\ metrics'.gpt_calls = metrics.gpt_calls + 1]_vars

IssueKeys == {"excerpt", "issue", "suggested_fix"}

ParsesAsJson(resp) == resp.kind = "reply" /\ resp.content.t = "json"

\* the issues value of a reply that is a JSON object with an issues list
IssuesSent(resp) == resp.content.value.fields["issues"].items

HasIssuesList(resp) ==
    /\ ParsesAsJson(resp)
    /\ resp.content.value.t = "dict"
    /\ "issues" \in DOMAIN resp.content.value.fields
    /\ resp.content.value.fields["issues"].t = "list"

\* the entry does not give the sub-field: it is null, or a dict without it
Missing(entry, k) ==
    \/ entry.t = "NoneType"
    \/ entry.t = "dict" /\ k \notin DOMAIN entry.fields

\* C16: for every reply that parses as JSON the review does not fail and
\* each entry of the returned issues list has the three sub-fields excerpt,
\* issue and suggested_fix, each a string of at most 400 characters; a
\* missing sub-field, or a null or malformed issue entry, gives the empty
\* string.
C16_IssuesNormalised ==
    (call.fn = "_generate_analysis" /\ ParsesAsJson(call.env.resp)) =>
        /\ call.ret.error = <<>>
        /\ \A i \in DOMAIN call.ret.issues :
              /\ DOMAIN call.ret.issues[i] = IssueKeys
              /\ \A k \in IssueKeys :
                    /\ call.ret.issues[i][k].t = "str"
                    /\ Len(call.ret.issues[i][k].s) <= IssueFieldLimit
        /\ HasIssuesList(call.env.resp) =>
              /\ Len(call.ret.issues) = Len(IssuesSent(call.env.resp))
              /\ \A i \in DOMAIN call.ret.issues : \A k \in IssueKeys :
                    (Missing(IssuesSent(call.env.resp)[i], k)
                     \/ IssuesSent(call.env.resp)[i].t # "dict")
                        => call.ret.issues[i][k] = JStr(<<>>)

\* C17: the issues list of every successful analyze_document result has at
\* most 10 entries, whatever number of issues the collaborator returns.
C17_AtMostTenIssues ==
    (call.fn = "analyze_document" /\ ~call.raised /\ call.ret.error = <<>>)
        => Len(call.ret.issues) <= MaxIssues

\* the budget the claim gives a category
Budget(doc_type) ==
    IF doc_type \in {"sop", "cv", "motivation letter"} THEN 4000 ELSE 2000

\* the text of the request the call sent to the collaborator
Sent(c) == c.requests[1].text

\* C18: the text sent to the collaborator is cut to a budget that depends
\* on the category, 4000 characters for sop, cv and motivation letter and
\* 2000 for any other: a text within the budget is sent unchanged, a longer
\* one as its first budget characters, right-stripped, followed by "...".
C18_TextCutToBudget ==
    call.fn = "_generate_analysis" =>
        /\ Len(call.requests) = 1
        /\ Len(call.args.text) <= Budget(call.args.doc_type) =>
              Sent(call) = call.args.text
        /\ Len(call.args.text) > Budget(call.args.doc_type) =>
              Sent(call) =
                  RStrip(SubSeq(call.args.text, 1, Budget(call.args.doc_type)))
                      \o <<".", ".", ".">>

\* a cv text of 4001 characters with blanks just before the cut: 3998
\* letters and the dots are sent
C18_Witness ==
    /\ call.fn = "_generate_analysis"
    /\ call.args.doc_type = "cv"
    /\ Len(call.args.text) = 4001
    /\ call.args.text[4000] = " "
    /\ Len(Sent(call)) = 4001
    /\ Sent(call)[3998] = "a"
    /\ Sent(call)[3999] = "."

\* C19: the text extraction returns has no leading or trailing whitespace,
\* for every format, and so has the text field of every successful
\* analyze_document result.
C19_TextIsStripped ==
    /\ (call.fn = "parse_uploaded_file" /\ ~call.raised) =>
          Strip(call.ret) = call.ret
    /\ (call.fn = "analyze_document" /\ ~call.raised
        /\ call.ret.error = <<>>) =>
          Strip(call.ret.text) = call.ret.text

\* the step is a call of generate_response
ChatStep == call = Idle /\ call'.fn = "generate_response"

GenerationFailed(c) == c.env.resp.kind \in {"throw", "no_choices"}

\* the call just made was answered from the cache
ServedFromCache ==
    /\ call'.trace = <<>>
    /\ call'.requests = <<>>
    /\ metrics'.gpt_calls = metrics.gpt_calls
    /\ metrics'.cache_hits = metrics.cache_hits + 1

\* a call that finds no entry fetches the feeds and calls the collaborator
\* once; when the generation fails it answers with the error text and
\* stores nothing
MissGenerates ==
    cache[md5(call'.args.prompt)] = Absent =>
        /\ call'.trace = <<"fetch", "generate">>
        /\ Len(call'.requests) = 1
        /\ metrics'.cache_hits = metrics.cache_hits
        /\ GenerationFailed(call') =>
              /\ call'.ret = ErrorReply
              /\ cache'[md5(call'.args.prompt)] = Absent
        /\ ~GenerationFailed(call') =>
              /\ call'.ret = call'.env.resp.content
              /\ cache'[md5(call'.args.prompt)] = call'.ret
              /\ metrics'.gpt_calls = metrics.gpt_calls + 1

\* C20 as claimed: generate_response caches only successful answers, keyed
\* by the prompt alone: a failed generation leaves the prompt out of the
\* cache and the next call generates again; once a call for a prompt
\* succeeded, every later call with that prompt, whatever its context,
\* returns the same answer without feed fetch or generation call, leaves
\* gpt_calls as it is and adds one to cache_hits.
C20_CachedForever ==
    [][ChatStep =>
          /\ MissGenerates
          /\ answered[call'.args.prompt] # Absent =>
                /\ call'.ret = answered[call'.args.prompt]
                /\ ServedFromCache]_vars

\* C20, amended: the same, for every later call made while the entry is
\* still in the cache (an entry expires 24 hours after it was stored; the
\* call after that generates again).
C20_CachedUntilExpiry ==
    [][ChatStep =>
          /\ MissGenerates
          /\ cache[md5(call'.args.prompt)] # Absent =>
                /\ call'.ret = answered[call'.args.prompt]
                /\ ServedFromCache
                /\ cache' = cache
          /\ \A q \in Prompts :
                cache'[md5(q)] \in {Absent, answered'[q]}]_vars

\* a call with a context served from the cache with the answer an earlier
\* call generated
C20_Witness ==
    /\ call.fn = "generate_response"
    /\ call.trace = <<>>
    /\ Truthy(call.args.context)
    /\ call.ret = answered[call.args.prompt]
    /\ call.ret = cache[md5(call.args.prompt)]
    /\ call.ret.t = "str"
    /\ metrics.cache_hits = 1
    /\ metrics.gpt_calls = 1

\* the request supplies a key and it is the configured one
KeyMatches(c) ==
    /\ c.args.header.t = "header"
    /\ c.env.API_KEY.t = "str"
    /\ c.args.header.v = c.env.API_KEY.s

\* C21: /chat calls generate_response only for a request whose X-API-KEY
\* equals the configured API_KEY: with a missing or different key the
\* answer is HTTP 403 and generate_response is not called and no request
\* reaches the collaborator, also when API_KEY is not set.
C21_ChatNeedsKey ==
    (call.fn = "chat_endpoint" /\ ~KeyMatches(call)) =>
        /\ call.status = 403
        /\ call.trace = <<"validate_api_key">>
        /\ call.requests = <<>>

====
